---- MODULE Spec2Model ----
(***************************************************************************)
(* Model of mcp_ssh: the tool surface (server.py), the process registry    *)
(* (background.py), the remote helpers (ssh.py) and the command gate       *)
(* (security.py).                                                          *)
(*                                                                         *)
(* Tool calls are coroutines on one event loop: a call runs atomically     *)
(* from one `await` to the next, so every action below is one such         *)
(* segment of a handler.  The remote host is the environment: launched     *)
(* commands write to their spool and exit on their own.                    *)
(***************************************************************************)
EXTENDS Integers, Sequences, FiniteSets, TLC

VARIABLES
    policy,     \* the CommandValidator instance: mode, case flag, pattern lists
    reuse,      \* SSH_CONNECTION_REUSE
    registry,   \* process_manager.processes: id -> index into objs (0: no key)
    objs,       \* the BackgroundProcess objects ever created, in creation order
    procs,      \* remote processes; the PID is the index
    spool,      \* remote spool files of each BackgroundProcess object
    sessions,   \* number of SSH sessions currently open
    calls,      \* the tool calls in flight, one per caller slot
    last,       \* the result record returned by the step just taken, if any
    killedOk,   \* history: ids for which a kill_command has returned success
    returned,   \* history: ids handed to a caller by execute_command
    termExit,   \* history: exit code a get_command_status first gave with a
                \* terminal status, per id handed out by execute_command
    budget      \* bound: start_process calls the run may still make

vars == <<policy, reuse, registry, objs, procs, spool, sessions, calls, last,
          killedOk, returned, termExit, budget>>

---------------------------------------------------------------------------
\* Bounds of the model.

MaxIds == 1
MaxObjs == 1
MaxSlots == 2
MaxSpool == 4
MaxChunk == 3
\* Sessions left open by calls that have returned, at most.
MaxLeak == 2

Ids == 1..MaxIds
Slots == 1..MaxSlots

\* Program constants (environment-configured; the model runs the service with
\* MCP_SSH_MAX_OUTPUT_SIZE=2 and MCP_SSH_CHUNK_SIZE=2).
MAX_OUTPUT_SIZE == 2
CHUNK_SIZE == 2

\* The values Python writes as '' (no process id) and None (no PID, no exit code).
NoId == 0
NoPid == 0
NoExit == -1

Hosts == {"h1", "ghost"}
KnownHosts == {"h1"}
\* Bytes a command can write: two ASCII ones and the two bytes of a two-byte
\* UTF-8 character.
Ascii == {"a", "\n"}
Bytes == Ascii \cup {"C3", "A9"}
ExitCodes == {0, 1}
\* An exception of a remote call, by its text, which is all the handlers look at:
\* one that says "timeout", one that says something else, one with no text
\* (socket.timeout() carries none).
ExcKinds == {"timeout", "other", "empty"}

Min(a, b) == IF a < b THEN a ELSE b

---------------------------------------------------------------------------
\* Command gate (security.py).  Commands are character sequences; a pattern is
\* a sequence of literal characters and of the class \s, and search() looks
\* for it anywhere in the text.

Lower(ch) == IF ch = "R" THEN "r" ELSE IF ch = "M" THEN "m" ELSE ch

LowerSeq(s) == [i \in 1..Len(s) |-> Lower(s[i])]

IsSpace(ch) == ch \in {" ", "\n"}

RECURSIVE LStrip(_)
LStrip(s) == IF s # <<>> /\ IsSpace(Head(s)) THEN LStrip(Tail(s)) ELSE s

RECURSIVE RStrip(_)
RStrip(s) ==
    IF s # <<>> /\ IsSpace(s[Len(s)]) THEN RStrip(SubSeq(s, 1, Len(s) - 1)) ELSE s

strip(s) == RStrip(LStrip(s))

\* One pattern element against one character.
Matches(p, ch, caseSensitive) ==
    IF p = "\\s" THEN IsSpace(ch)
    ELSE IF caseSensitive THEN p = ch ELSE Lower(p) = Lower(ch)

search(pat, s, caseSensitive) ==
    \E i \in 1..(Len(s) - Len(pat) + 1) :
        \A j \in 1..Len(pat) : Matches(pat[j], s[i + j - 1], caseSensitive)

_validate_whitelist(v, command) ==
    IF v.whitelist_patterns = <<>>
    THEN [allowed |-> FALSE, reason |-> "no_whitelist"]
    ELSE IF \E i \in 1..Len(v.whitelist_patterns) :
                search(v.whitelist_patterns[i], command, v.case_sensitive)
         THEN [allowed |-> TRUE, reason |-> "whitelist_match"]
         ELSE [allowed |-> FALSE, reason |-> "not_in_whitelist"]

_validate_blacklist(v, command) ==
    IF \E i \in 1..Len(v.blacklist_patterns) :
           search(v.blacklist_patterns[i], command, v.case_sensitive)
    THEN [allowed |-> FALSE, reason |-> "blacklist_match"]
    ELSE [allowed |-> TRUE, reason |-> "passed"]

\* The user argument of validate_command: left out, or a login name.
Users == {"", "root"}

validate_command_hostaware(v, command, host, user) ==
    IF v.security_mode = "disabled"
    THEN [allowed |-> TRUE, reason |-> "disabled"]
    ELSE LET c == strip(command)
         IN IF c = <<>>
            THEN [allowed |-> FALSE, reason |-> "empty"]
            ELSE IF host = "ghost" \/ user = "root"
                 THEN [allowed |-> FALSE, reason |-> "context"]
                 ELSE IF v.security_mode = "whitelist"
                      THEN _validate_whitelist(v, c)
                      ELSE IF v.security_mode = "blacklist"
                           THEN _validate_blacklist(v, c)
                           ELSE [allowed |-> FALSE, reason |-> "unknown_mode"]

validate_command_failopen(v, command, host, user) ==
    IF v.security_mode = "disabled"
    THEN [allowed |-> TRUE, reason |-> "disabled"]
    ELSE LET c == strip(command)
         IN IF c = <<>>
            THEN [allowed |-> FALSE, reason |-> "empty"]
            ELSE IF v.security_mode = "whitelist"
                 THEN _validate_whitelist(v, c)
                 ELSE IF v.security_mode = "blacklist"
                      THEN _validate_blacklist(v, c)
                      ELSE [allowed |-> TRUE, reason |-> "unknown_mode"]

validate_command(v, command, host, user) ==
    IF v.security_mode = "disabled"
    THEN [allowed |-> TRUE, reason |-> "disabled"]
    ELSE LET c == strip(command)
         IN IF c = <<>>
            THEN [allowed |-> FALSE, reason |-> "empty"]
            ELSE IF v.security_mode = "whitelist"
                 THEN _validate_whitelist(v, c)
                 ELSE IF v.security_mode = "blacklist"
                      THEN _validate_blacklist(v, c)
                      ELSE [allowed |-> FALSE, reason |-> "unknown_mode"]

Commands == { <<"l", "s">>, <<"r", "m">>, <<" ">> }

DefaultPolicy ==
    [security_mode |-> "blacklist", case_sensitive |-> FALSE,
     blacklist_patterns |-> << <<"r", "m">> >>, whitelist_patterns |-> <<>>]

WhitelistPolicy ==
    [security_mode |-> "whitelist", case_sensitive |-> FALSE,
     blacklist_patterns |-> << <<"r", "m">> >>,
     whitelist_patterns |-> << <<"l", "s">> >>]

Policies == {DefaultPolicy, WhitelistPolicy}

\* _validator = None: no CommandValidator has been built yet.
NoValidator ==
    [security_mode |-> "unbuilt", case_sensitive |-> FALSE,
     blacklist_patterns |-> <<>>, whitelist_patterns |-> <<>>]

get_validator_rebuilt(v) == IF v = NoValidator THEN DefaultPolicy ELSE WhitelistPolicy

\* get_validator: the global instance, built from the environment on the first
\* call and returned as it is on every later one.
get_validator(v) == IF v = NoValidator THEN DefaultPolicy ELSE v

\* The validators the environment variables can configure, for the gate taken
\* alone: every mode (one of them unknown), both case flags, and deny and
\* allow lists without a pattern, with a literal one, and with one that ends
\* in white space.
GateModes == {"disabled", "blacklist", "whitelist", "strict"}
DenyLists == { <<>>, << <<"r", "m">> >>, << <<"r", "m", "\\s">> >> }
AllowLists == { <<>>, << <<"l", "s">> >>, << <<"l", "s", "\\s">> >> }
GatePolicies ==
    [security_mode : GateModes, case_sensitive : BOOLEAN,
     blacklist_patterns : DenyLists, whitelist_patterns : AllowLists]
GateCommands ==
    Commands \cup { <<>>, <<"R", "M">>, <<"r", "m", " ">>, <<"l", "s", " ">>,
                    <<"l", "s", " ", "r", "m">> }

---------------------------------------------------------------------------
\* Process registry (background.py).

BackgroundProcess(id, host) ==
    [process_id |-> id, host |-> host, pid |-> NoPid, status |-> "running",
     exit_code |-> NoExit]

get_process_evicted(id) == 0

\* get_process: the object stored under the key, 0 when the key is missing.
get_process(id) == registry[id]

update_process_overwrite(os, reg, id, pid, status, exit_code) ==
    IF reg[id] = 0 THEN os
    ELSE [os EXCEPT ![reg[id]] = [@ EXCEPT !.pid = pid,
                                           !.status = IF status # "" THEN status
                                                      ELSE @,
                                           !.exit_code = exit_code]]

\* update_process as a function of the object table: the partial merge is
\* applied to the object currently stored under the key.
update_process(os, reg, id, pid, status, exit_code) ==
    IF reg[id] = 0 THEN os
    ELSE LET o == reg[id]
             r1 == IF pid # NoPid THEN [os[o] EXCEPT !.pid = pid] ELSE os[o]
             r2 == IF status # "" THEN [r1 EXCEPT !.status = status] ELSE r1
             r3 == IF exit_code # NoExit THEN [r2 EXCEPT !.exit_code = exit_code]
                   ELSE r2
         IN [os EXCEPT ![o] = r3]

EmptySpool == [has |-> FALSE, out |-> <<>>, exit |-> NoExit]

EmptySpoolFor(os) == [i \in DOMAIN os |-> EmptySpool]

---------------------------------------------------------------------------
\* Remote helpers (ssh.py), as functions of the remote state.

\* bytes.decode(): UTF-8 by default, strict.  DecodeOk is false where it raises
\* UnicodeDecodeError; the character of the two-byte sequence is written "E".
RECURSIVE DecodeOk(_)
DecodeOk(bs) ==
    IF bs = <<>> THEN TRUE
    ELSE IF Head(bs) \in Ascii THEN DecodeOk(Tail(bs))
    ELSE IF Head(bs) = "C3" /\ Len(bs) >= 2 /\ bs[2] = "A9"
         THEN DecodeOk(SubSeq(bs, 3, Len(bs)))
         ELSE FALSE

RECURSIVE decode(_)
decode(bs) ==
    IF bs = <<>> THEN <<>>
    ELSE IF Head(bs) \in Ascii THEN <<Head(bs)>> \o decode(Tail(bs))
    ELSE IF Head(bs) = "C3" /\ Len(bs) >= 2 /\ bs[2] = "A9"
         THEN <<"E">> \o decode(SubSeq(bs, 3, Len(bs)))
         ELSE <<>>

\* str.encode(): the bytes of a text.
RECURSIVE encode(_)
encode(text) ==
    IF text = <<>> THEN <<>>
    ELSE (IF Head(text) = "E" THEN <<"C3", "A9">> ELSE <<Head(text)>>)
         \o encode(Tail(text))

\* The command launched for record o is running on the remote host.
LiveFor(o) == \E p \in DOMAIN procs : procs[p].obj = o /\ procs[p].live

\* The command launched for record o has ended.
EndedFor(o) == \E p \in DOMAIN procs : procs[p].obj = o /\ ~procs[p].live

\* kill -0 <pid> && echo RUNNING || echo STOPPED
Probe(ps, pid) == IF pid \in DOMAIN ps /\ ps[pid].live THEN "RUNNING" ELSE "STOPPED"

get_process_output_nopidfailed(os, ps, sp, o, max_size) ==
    LET status == IF os[o].pid # NoPid
                  THEN (IF Probe(ps, os[o].pid) = "RUNNING" THEN "running"
                        ELSE "completed")
                  ELSE "failed"
        read == IF sp[o].has THEN SubSeq(sp[o].out, 1, Min(max_size, Len(sp[o].out)))
                ELSE <<"\n">>
    IN [status |-> status,
        exit_code |-> IF status = "running" THEN NoExit ELSE sp[o].exit,
        output |-> decode(read), ok |-> DecodeOk(read)]

get_process_output_exitfail(os, ps, sp, o, max_size) ==
    LET live == os[o].pid # NoPid /\ Probe(ps, os[o].pid) = "RUNNING"
        read == IF sp[o].has THEN SubSeq(sp[o].out, 1, Min(max_size, Len(sp[o].out)))
                ELSE <<"\n">>
    IN [status |-> IF live THEN "running"
                   ELSE IF sp[o].exit \in {NoExit, 0} THEN "completed" ELSE "failed",
        exit_code |-> IF live THEN NoExit ELSE sp[o].exit,
        output |-> decode(read), ok |-> DecodeOk(read)]

\* get_process_output when no remote command raises: the probe, the exit-code
\* read, and `head -c max_size <file> || echo ''` decoded; ok is false when the
\* decoding of the stdout read raises.
get_process_output(os, ps, sp, o, max_size) ==
    LET status == IF os[o].pid # NoPid
                  THEN (IF Probe(ps, os[o].pid) = "RUNNING" THEN "running"
                        ELSE "completed")
                  ELSE "completed"
        exit_code == IF status = "completed" THEN sp[o].exit ELSE NoExit
        read == IF sp[o].has THEN SubSeq(sp[o].out, 1, Min(max_size, Len(sp[o].out)))
                ELSE <<"\n">>
    IN [status |-> status, exit_code |-> exit_code, output |-> decode(read),
        ok |-> DecodeOk(read)]

\* The remote commands get_process_output issues, in order.
PollCmds(os, ps, o) ==
    (IF os[o].pid # NoPid THEN <<"probe">> ELSE <<>>)
    \o (IF get_process_output(os, ps, EmptySpoolFor(os), o, 0).status = "completed"
        THEN <<"read_exit">> ELSE <<>>)
    \o <<"read_out", "read_err">>

\* Where a poll fails: at its f-th remote command when that one raises (f > 0),
\* else at the stdout read when its decoding raises (UnicodeDecodeError, whose
\* text does not say "timeout"); at = 0 when it does not fail.
PollFault(cmds, r, f, k) ==
    IF f > 0 /\ f < Len(cmds) THEN [at |-> f, kind |-> k, site |-> cmds[f]]
    ELSE IF ~r.ok THEN [at |-> Len(cmds) - 1, kind |-> "other", site |-> "decode"]
    ELSE IF f > 0 THEN [at |-> f, kind |-> k, site |-> cmds[f]]
    ELSE [at |-> 0, kind |-> "", site |-> ""]

\* The first n commands of a sequence, the n-th being the one that raised.
Upto(cmds, n) == {cmds[i] : i \in 1..Min(n, Len(cmds))}

\* get_output_chunk: tail -c +(start+1) | head -c size, decoded, then the probe
\* of the byte at start+size, decoded and stripped before the truth test.
\* raised: the number of the remote read whose decoding raises, 0 for none.
get_output_chunk(sp, o, start_byte, chunk_size) ==
    LET out == IF sp[o].has THEN sp[o].out ELSE <<>>
        chunk == SubSeq(out, start_byte + 1, Min(start_byte + chunk_size, Len(out)))
        nxt == SubSeq(out, start_byte + chunk_size + 1,
                      Min(start_byte + chunk_size + 1, Len(out)))
    IN [chunk |-> decode(chunk), has_more |-> strip(decode(nxt)) # <<>>,
        raised |-> IF ~DecodeOk(chunk) THEN 1 ELSE IF ~DecodeOk(nxt) THEN 2 ELSE 0]

---------------------------------------------------------------------------
\* Tool calls.

\* What get_ssh_client_from_config meets: whether the alias is in the SSH
\* configuration; the identity file (none named, named but missing, present);
\* how RSAKey.from_private_key_file ends without a passphrase (it returns,
\* raises paramiko.SSHException, raises something else); whether SSH_KEY_PHRASE
\* is set; whether the load with it returns; whether client.connect returns.
OpenInputs ==
    [alias : BOOLEAN, keyfile : {"unset", "missing", "present"},
     plain : {"ok", "ssh_exception", "other"}, phrase : BOOLEAN,
     withphrase : BOOLEAN, connect : BOOLEAN]

NoInput ==
    [alias |-> FALSE, keyfile |-> "", plain |-> "", phrase |-> FALSE,
     withphrase |-> FALSE, connect |-> FALSE]

\* client.connect(**connect_kwargs) inside the try: the client, or None.
Connect(in, before) ==
    [client |-> in.connect, steps |-> Append(before, "connect")]

get_ssh_client_from_config_nokey(in) ==
    IF ~in.alias THEN [client |-> FALSE, steps |-> <<>>]
    ELSE IF in.keyfile # "present" THEN Connect(in, <<>>)
    ELSE IF in.plain = "ok" THEN Connect(in, <<"load_plain">>)
    ELSE IF in.plain = "other" \/ ~in.phrase
    THEN [client |-> FALSE, steps |-> <<"load_plain">>]
    ELSE IF in.withphrase THEN Connect(in, <<"load_plain", "load_phrase">>)
    ELSE [client |-> FALSE, steps |-> <<"load_plain", "load_phrase">>]

\* get_ssh_client_from_config: the client (TRUE) or None (FALSE), and the key
\* loads and the connection it attempted, in order.  Every step that can
\* raise is inside the try of lines 115-201, so nothing is raised to the caller.
get_ssh_client_from_config(in) ==
    IF ~in.alias THEN [client |-> FALSE, steps |-> <<>>]
    ELSE IF in.keyfile = "unset" THEN Connect(in, <<>>)
    ELSE IF in.keyfile = "missing" THEN [client |-> FALSE, steps |-> <<>>]
    ELSE IF in.plain = "ok" THEN Connect(in, <<"load_plain">>)
    ELSE IF in.plain = "other" \/ ~in.phrase
    THEN [client |-> FALSE, steps |-> <<"load_plain">>]
    ELSE IF in.withphrase THEN Connect(in, <<"load_plain", "load_phrase">>)
    ELSE [client |-> FALSE, steps |-> <<"load_plain", "load_phrase">>]

Idle ==
    [pc |-> "idle", op |-> "", id |-> NoId, proc |-> 0, client |-> FALSE,
     cleanup |-> FALSE, start_byte |-> 0, chunk_size |-> 0, msg |-> "",
     host |-> "", command |-> <<>>,
     tried |-> 0, opened |-> 0, sent |-> {}, created |-> 0, pre |-> "",
     seen |-> "", raised |-> "", site |-> "", steps |-> <<>>,
     reports |-> <<>>]

NoResult ==
    [op |-> "", success |-> FALSE, process_id |-> NoId, status |-> "",
     exit_code |-> NoExit, error_message |-> "", message |-> "",
     stdout |-> <<>>, has_more_output |-> FALSE, chunk_start |-> 0,
     output_size |-> 0, size |-> 0,
     host |-> "", command |-> <<>>, req_id |-> NoId,
     tried |-> 0, opened |-> 0, sent |-> {}, created |-> 0, pre |-> "",
     seen |-> "", raised |-> "", site |-> "", open_after |-> 0,
     steps |-> <<>>, reports |-> <<>>, cleanup |-> FALSE, proc |-> 0,
     pid |-> NoPid, user |-> "", input |-> NoInput]

\* The result of the call that returned last has been handed to its caller:
\* a handler step runs only then, so that interleavings are told apart by the
\* server's state and not by the result still on display.
Taken == last = NoResult

\* The MCP layer sends the handler's return value to the caller.
TakeResult ==
    /\ last # NoResult
    /\ last' = NoResult
    /\ UNCHANGED <<policy, reuse, registry, objs, procs, spool, sessions, calls,
                   killedOk, returned, termExit, budget>>

\* A CommandResult / KillProcessResult with the defaults of the model class,
\* stamped with what the call did on the way.
Result(c, fields) ==
    [f \in DOMAIN NoResult |->
        IF f \in DOMAIN fields THEN fields[f]
        ELSE IF f = "op" THEN c.op
        ELSE IF f = "req_id" THEN c.id
        ELSE IF f = "open_after" THEN (IF c.client /\ reuse THEN 1 ELSE 0)
        ELSE IF f \in {"host", "command", "tried", "opened", "sent", "created",
                       "pre", "seen", "raised", "site", "steps", "reports",
                       "cleanup", "proc"}
             THEN c[f]
        ELSE NoResult[f]]

\* finally: if client and not SSH_CONNECTION_REUSE: client.close()
AfterClose(c, n) == IF c.client /\ ~reuse THEN n - 1 ELSE n

Init ==
    /\ policy = NoValidator
    /\ reuse = FALSE
    /\ registry = [i \in Ids |-> 0]
    /\ objs = <<>>
    /\ procs = <<>>
    /\ spool = <<>>
    /\ sessions = 0
    /\ calls = [s \in Slots |-> Idle]
    /\ last = NoResult
    /\ killedOk = {}
    /\ returned = {}
    /\ termExit = [i \in Ids |-> {}]
    /\ budget = MaxObjs

---------------------------------------------------------------------------
\* Environment: the remote host.

\* A launched command writes one more byte to its stdout spool.
ProcWrite(p, b) ==
    /\ Taken
    /\ p \in DOMAIN procs
    /\ procs[p].live
    /\ spool[procs[p].obj].has
    /\ spool' = [spool EXCEPT ![procs[p].obj].out = Append(@, b)]
    /\ last' = NoResult
    /\ UNCHANGED <<policy, reuse, registry, objs, procs, sessions, calls,
                   killedOk, returned, termExit, budget>>

\* The command ends on its own: the wrapper writes $? to <out>.exit and exits.
ProcExit(p, code) ==
    /\ Taken
    /\ p \in DOMAIN procs
    /\ procs[p].live
    /\ procs' = [procs EXCEPT ![p].live = FALSE]
    /\ spool' = [spool EXCEPT ![procs[p].obj].exit = code]
    /\ last' = NoResult
    /\ UNCHANGED <<policy, reuse, registry, objs, sessions, calls,
                   killedOk, returned, termExit, budget>>

---------------------------------------------------------------------------
\* get_ssh_client_from_config: None for an alias missing from the config, and
\* for any key or connection failure.
CanOpen_any(h, ok) == TRUE

CanOpen(h, ok) == ok /\ h \in KnownHosts

\* A call that ends for want of a session: for a known alias an exception was
\* raised inside get_ssh_client_from_config, which logs it and returns None.
OpenFailed(c, h) ==
    IF h \in KnownHosts THEN [c EXCEPT !.raised = "other", !.site = "open"] ELSE c

ExecGateBlocks_ignored(command, host) == FALSE

\* server.py 138-139: is_allowed, reason = validate_command(...); if not is_allowed
ExecGateBlocks(command, host) ==
    ~validate_command(get_validator(policy), command, host, "").allowed

\* A caller slot is free when no handler runs in it; a new call takes the
\* first free slot.
IsFree(s) == calls[s].pc = "idle"

Free(s) == IsFree(s) /\ \A t \in Slots : t < s => ~IsFree(t)

\* The handler returns: the result is handed out.
Return(s, c, res, n) ==
    /\ calls' = [calls EXCEPT ![s] = Idle]
    /\ last' = res
    /\ sessions' = AfterClose(c, n)

\* execute_command, from entry to `await ctx.report_progress(0.3)`:
\* the gate, the session, start_process.
ExecBegin(s, h, c, ok, id) ==
    /\ Taken
    /\ Free(s)
    /\ LET c0 == [Idle EXCEPT !.op = "execute", !.host = h, !.command = c]
       IN \/ /\ ExecGateBlocks(c, h)
             /\ Return(s, c0, Result(c0, [success |-> FALSE, process_id |-> NoId,
                                          status |-> "failed",
                                          error_message |-> "policy"]), sessions)
             /\ UNCHANGED <<registry, objs, spool, budget>>
          \/ /\ ~ExecGateBlocks(c, h)
             /\ ~CanOpen(h, ok)
             /\ LET c1 == OpenFailed([c0 EXCEPT !.tried = 1], h)
                IN Return(s, c1, Result(c1, [success |-> FALSE, process_id |-> NoId,
                                             status |-> "failed",
                                             error_message |-> "connect"]), sessions)
             /\ UNCHANGED <<registry, objs, spool, budget>>
          \/ /\ ~ExecGateBlocks(c, h)
             /\ CanOpen(h, ok)
             /\ budget > 0
             /\ budget' = budget - 1
             /\ objs' = Append(objs, BackgroundProcess(id, h))
             /\ spool' = Append(spool, EmptySpool)
             /\ registry' = [registry EXCEPT ![id] = Len(objs) + 1]
             /\ sessions' = sessions + 1
             /\ calls' = [calls EXCEPT ![s] =
                    [c0 EXCEPT !.pc = "e_launch", !.id = id, !.proc = Len(objs) + 1,
                               !.client = TRUE, !.tried = 1, !.opened = 1,
                               !.created = Len(objs) + 1]]
             /\ last' = NoResult
    /\ policy' = get_validator(policy)
    /\ UNCHANGED <<reuse, procs, killedOk, returned, termExit>>

\* str(e): the text of an exception, as the handlers test it and report it.
ExcText(k) ==
    IF k = "timeout" THEN "exc_timeout" ELSE IF k = "empty" THEN "" ELSE "exc_other"

\* execute_command, from execute_command_background to the quick wait.
\* how = "ok": the PID line is read; "nostart": exec_command raises before the
\* wrapper runs; "lost": the wrapper runs but no integer PID is read (the read
\* raises, or int() fails and RuntimeError("Failed to get PID") is raised).
ExecLaunch(s, how, k) ==
    /\ Taken
    /\ calls[s].pc = "e_launch"
    /\ LET c == [calls[s] EXCEPT !.sent = @ \cup {"launch"}]
           pid == Len(procs) + 1
           started == /\ procs' = Append(procs, [live |-> TRUE, obj |-> c.proc])
                      /\ spool' = [spool EXCEPT ![c.proc].has = TRUE,
                                                ![c.proc].out = <<>>]
           failed(text) ==
               /\ LET cx == [c EXCEPT !.raised = k, !.site = "launch"]
                  IN Return(s, cx, Result(cx, [success |-> FALSE,
                                               process_id |-> c.id,
                                               status |-> "failed",
                                               error_message |-> text]), sessions)
               /\ returned' = returned \cup {c.id}
               /\ UNCHANGED objs
       IN \/ /\ how = "ok"
             /\ started
             /\ objs' = update_process(objs, registry, c.id, pid, "", NoExit)
             /\ calls' = [calls EXCEPT ![s] = [c EXCEPT !.pc = "e_poll"]]
             /\ last' = NoResult
             /\ UNCHANGED <<sessions, returned>>
          \/ /\ how = "nostart"
             /\ failed(ExcText(k))
             /\ UNCHANGED <<procs, spool>>
          \/ /\ how = "lost"
             /\ started
             /\ failed(IF k = "other" THEN "exc_launch" ELSE ExcText(k))
    /\ UNCHANGED <<policy, reuse, registry, killedOk, termExit, budget>>

\* execute_command, after the quick wait: the single poll, the registry update
\* and the result.  f > 0: the f-th remote command of the poll raises.
ExecPoll(s, f, k) ==
    /\ Taken
    /\ calls[s].pc = "e_poll"
    /\ LET c0 == calls[s]
           cmds == PollCmds(objs, procs, c0.proc)
           r == get_process_output(objs, procs, spool, c0.proc, MAX_OUTPUT_SIZE)
           pf == PollFault(cmds, r, f, k)
       IN /\ f <= Len(cmds)
          /\ \/ /\ pf.at > 0
                /\ LET c == [c0 EXCEPT !.sent = @ \cup Upto(cmds, pf.at),
                                        !.raised = pf.kind, !.site = pf.site]
                   IN Return(s, c, Result(c, [success |-> FALSE,
                                              process_id |-> c.id,
                                              status |-> "failed",
                                              error_message |-> ExcText(pf.kind)]),
                             sessions)
                /\ UNCHANGED objs
             \/ /\ pf.at = 0
                /\ objs' = update_process(objs, registry, c0.id, NoPid, r.status,
                                          r.exit_code)
                /\ LET c == [c0 EXCEPT !.sent = @ \cup Upto(cmds, Len(cmds))]
                   IN Return(s, c, Result(c, [success |-> TRUE,
                                              process_id |-> c.id,
                                              status |-> r.status,
                                              stdout |-> r.output,
                                              exit_code |-> r.exit_code,
                                              output_size |-> Len(r.output),
                                              has_more_output |->
                                                  Len(r.output) >= MAX_OUTPUT_SIZE,
                                              chunk_start |-> 0]), sessions)
    /\ returned' = returned \cup {calls[s].id}
    /\ UNCHANGED <<policy, reuse, registry, procs, spool, killedOk, termExit, budget>>

NotFound_afterOpen(s, c) ==
    LET c1 == [c EXCEPT !.tried = 1, !.opened = 1]
    IN Return(s, c1, Result(c1, [success |-> FALSE, process_id |-> c.id,
                                 status |-> "failed",
                                 error_message |-> "not_found"]), sessions)

\* if not process: "Process ID ... not found", before any session.
NotFound(s, c) ==
    Return(s, c, Result(c, [success |-> FALSE, process_id |-> c.id,
                            status |-> "failed", error_message |-> "not_found"]),
           sessions)

NoConnection(s, c) ==
    Return(s, c, Result(c, [success |-> FALSE, process_id |-> c.id,
                            status |-> "failed", error_message |-> "connect"]),
           sessions)

AfterKill(id) == IF id \in killedOk THEN "after_kill" ELSE ""

\* get_command_status: the whole handler (it has no await on its way).
GetStatus(s, id, ok, f, k) ==
    /\ Taken
    /\ Free(s)
    /\ LET c0 == [Idle EXCEPT !.op = "status", !.id = id, !.pre = AfterKill(id),
                              !.proc = get_process(id)]
           o == c0.proc
       IN \/ /\ o = 0
             /\ NotFound(s, c0)
             /\ UNCHANGED <<objs, termExit>>
          \/ /\ o # 0
             /\ ~CanOpen(objs[o].host, ok)
             /\ NoConnection(s, OpenFailed([c0 EXCEPT !.tried = 1], objs[o].host))
             /\ UNCHANGED <<objs, termExit>>
          \/ /\ o # 0
             /\ CanOpen(objs[o].host, ok)
             /\ LET c1 == [c0 EXCEPT !.tried = 1, !.opened = 1, !.client = TRUE]
                    cmds == PollCmds(objs, procs, o)
                    r == get_process_output(objs, procs, spool, o, 100)
                    pf == PollFault(cmds, r, f, k)
                IN /\ f <= Len(cmds)
                   /\ \/ /\ pf.at > 0
                         /\ LET c == [c1 EXCEPT !.sent = Upto(cmds, pf.at),
                                                 !.raised = pf.kind,
                                                 !.site = pf.site]
                                caught == pf.kind = "timeout"
                            IN Return(s, c, Result(c,
                                   [success |-> FALSE, process_id |-> id,
                                    status |-> IF caught THEN "timeout"
                                               ELSE "failed",
                                    error_message |-> IF caught THEN "timeout"
                                                      ELSE ExcText(pf.kind)]),
                                   sessions + 1)
                         /\ UNCHANGED <<objs, termExit>>
                      \/ /\ pf.at = 0
                         /\ objs' = update_process(objs, registry, id, NoPid,
                                                   r.status, r.exit_code)
                         /\ termExit' =
                                IF /\ r.status # "running"
                                   /\ id \in returned
                                   /\ termExit[id] = {}
                                THEN [termExit EXCEPT ![id] = {r.exit_code}]
                                ELSE termExit
                         /\ LET c == [c1 EXCEPT !.sent = Upto(cmds, Len(cmds))]
                            IN Return(s, c, Result(c,
                                   [success |-> TRUE, process_id |-> id,
                                    status |-> r.status,
                                    exit_code |-> r.exit_code]), sessions + 1)
    /\ UNCHANGED <<policy, reuse, registry, procs, spool, killedOk, returned,
                   budget>>

\* get_command_output, up to `await ctx.info`: the registry lookup.
OutBegin(s, id, start_byte, chunk_size) ==
    /\ Taken
    /\ Free(s)
    /\ LET c0 == [Idle EXCEPT !.op = "output", !.id = id, !.pre = AfterKill(id),
                              !.proc = get_process(id),
                              !.start_byte = start_byte,
                              !.chunk_size = chunk_size]
       IN \/ /\ c0.proc = 0
             /\ NotFound(s, c0)
          \/ /\ c0.proc # 0
             /\ calls' = [calls EXCEPT ![s] = [c0 EXCEPT !.pc = "o_body"]]
             /\ last' = NoResult
             /\ UNCHANGED sessions
    /\ UNCHANGED <<policy, reuse, registry, objs, procs, spool, killedOk,
                   returned, termExit, budget>>

\* get_command_output, the rest: session, chunk, status poll, registry update.
\* f > 0: the f-th remote command raises (1, 2: the chunk read and the
\* has-more probe; 3..: the commands of the poll).
OutBody(s, ok, f, k) ==
    /\ Taken
    /\ calls[s].pc = "o_body"
    /\ LET c0 == calls[s]
           o == c0.proc
           size == IF c0.chunk_size # 0 THEN c0.chunk_size ELSE CHUNK_SIZE
       IN \/ /\ ~CanOpen(objs[o].host, ok)
             /\ NoConnection(s, OpenFailed([c0 EXCEPT !.tried = 1], objs[o].host))
             /\ UNCHANGED objs
          \/ /\ CanOpen(objs[o].host, ok)
             /\ LET c1 == [c0 EXCEPT !.tried = 1, !.opened = 1, !.client = TRUE]
                    poll == PollCmds(objs, procs, o)
                    cmds == <<"chunk", "more">> \o poll
                    ch == get_output_chunk(spool, o, c0.start_byte, size)
                    r == get_process_output(objs, procs, spool, o, 1000)
                    pp == PollFault(poll, r, IF f > 2 THEN f - 2 ELSE 0, k)
                    pf == IF f = 1 \/ (f = 2 /\ ch.raised # 1)
                          THEN [at |-> f, kind |-> k, site |-> cmds[f]]
                          ELSE IF ch.raised # 0
                          THEN [at |-> ch.raised, kind |-> "other", site |-> "decode"]
                          ELSE IF pp.at > 0 THEN [pp EXCEPT !.at = @ + 2]
                          ELSE pp
                IN /\ f <= Len(cmds)
                   /\ \/ /\ pf.at > 0
                         /\ LET c == [c1 EXCEPT !.sent = Upto(cmds, pf.at),
                                                 !.raised = pf.kind,
                                                 !.site = pf.site]
                                caught == pf.at <= 2 /\ pf.kind = "timeout"
                            IN Return(s, c, Result(c,
                                   [success |-> FALSE, process_id |-> c.id,
                                    status |-> IF caught THEN "timeout"
                                               ELSE "failed",
                                    error_message |-> IF caught THEN "timeout"
                                                      ELSE ExcText(pf.kind)]),
                                   sessions + 1)
                         /\ UNCHANGED objs
                      \/ /\ pf.at = 0
                         /\ objs' = update_process(objs, registry,
                                                   objs[o].process_id, NoPid,
                                                   r.status, r.exit_code)
                         /\ LET c == [c1 EXCEPT !.sent = Upto(cmds, Len(cmds))]
                            IN Return(s, c, Result(c,
                                   [success |-> TRUE, process_id |-> c.id,
                                    status |-> r.status, stdout |-> ch.chunk,
                                    exit_code |-> r.exit_code,
                                    output_size |-> Len(ch.chunk),
                                    has_more_output |-> ch.has_more,
                                    chunk_start |-> c0.start_byte,
                                    size |-> size]),
                                   sessions + 1)
    /\ UNCHANGED <<policy, reuse, registry, procs, spool, killedOk, returned,
                   termExit, budget>>

\* A signal reaches the process: a live one ends (by the signal: its wrapper
\* writes no exit file) when `dies`, anything else is left as it is.
Signal(ps, pid, dies) ==
    IF pid \in DOMAIN ps /\ ps[pid].live /\ dies
    THEN [ps EXCEPT ![pid].live = FALSE] ELSE ps

\* The outcome of kill_background_process: `steps` are the remote steps it
\* took, in order (a step that raised is the last one), `reports` what its
\* probes read, `caught` the exception it caught and turned into its message,
\* `raised` the exception that leaves it.
KillOutcome(killed, message, steps, reports, ps, caught, raised) ==
    [killed |-> killed, message |-> message, steps |-> steps,
     reports |-> reports, procs |-> ps, caught |-> caught, raised |-> raised,
     sent |-> {steps[i] : i \in DOMAIN steps} \ {"wait"}]

kill_background_process_always9(os, ps, o, f, d1, d2, k) ==
    LET pid == os[o].pid
        ps2 == Signal(Signal(ps, pid, d1), pid, d2)
    IN IF pid = NoPid
       THEN KillOutcome(FALSE, "no_pid", <<>>, <<>>, ps, "", "")
       ELSE KillOutcome(Probe(ps2, pid) = "STOPPED",
                        IF Probe(ps2, pid) = "STOPPED" THEN "forced"
                        ELSE "kill_failed",
                        <<"term", "wait", "probe", "kill9", "probe">>,
                        <<Probe(Signal(ps, pid, d1), pid), Probe(ps2, pid)>>,
                        ps2, "", "")

kill_background_process_raising(os, ps, o, f, d1, d2, k) ==
    LET pid == os[o].pid
        ps1 == Signal(ps, pid, d1)
    IN IF pid = NoPid
       THEN KillOutcome(FALSE, "no_pid", <<>>, <<>>, ps, "", "")
       ELSE IF f > 0
       THEN KillOutcome(FALSE, "", <<"term">>, <<>>, ps1, "", k)
       ELSE KillOutcome(Probe(ps1, pid) = "STOPPED",
                        IF Probe(ps1, pid) = "STOPPED" THEN "graceful"
                        ELSE "kill_failed",
                        <<"term", "wait", "probe">>, <<Probe(ps1, pid)>>, ps1,
                        "", "")

\* kill_background_process.  f > 0: the f-th remote command raises (1 SIGTERM,
\* 2 probe, 3 SIGKILL, 4 final probe) an exception of kind k; d1, d2: whether
\* SIGTERM and SIGKILL end a live process before the probe that follows.
kill_background_process(os, ps, o, f, d1, d2, k) ==
    LET pid == os[o].pid
        ps1 == Signal(ps, pid, d1)
        ps2 == Signal(ps1, pid, d2)
        r1 == Probe(ps1, pid)
        r2 == Probe(ps2, pid)
    IN IF pid = NoPid
       THEN KillOutcome(FALSE, "no_pid", <<>>, <<>>, ps, "", "")
       ELSE IF f = 1
       THEN KillOutcome(FALSE, "error_killing", <<"term">>, <<>>, ps1, k, "")
       ELSE IF f = 2
       THEN KillOutcome(FALSE, "error_killing", <<"term", "wait", "probe">>,
                        <<>>, ps1, k, "")
       ELSE IF r1 = "STOPPED"
       THEN KillOutcome(TRUE, "graceful", <<"term", "wait", "probe">>, <<r1>>,
                        ps1, "", "")
       ELSE IF f = 3
       THEN KillOutcome(FALSE, "error_killing",
                        <<"term", "wait", "probe", "kill9">>, <<r1>>, ps2, k, "")
       ELSE IF f = 4
       THEN KillOutcome(FALSE, "error_killing",
                        <<"term", "wait", "probe", "kill9", "probe">>, <<r1>>,
                        ps2, k, "")
       ELSE IF r2 = "STOPPED"
       THEN KillOutcome(TRUE, "forced",
                        <<"term", "wait", "probe", "kill9", "probe">>,
                        <<r1, r2>>, ps2, "", "")
       ELSE KillOutcome(FALSE, "kill_failed",
                        <<"term", "wait", "probe", "kill9", "probe">>,
                        <<r1, r2>>, ps2, "", "")

KillFailure(s, c, text, n) ==
    Return(s, c, Result(c, [success |-> FALSE, process_id |-> c.id,
                            error_message |-> text]), n)

\* kill_command, up to `await ctx.info`: the registry lookup.
KillBegin(s, id, cleanup_files) ==
    /\ Taken
    /\ Free(s)
    /\ LET c0 == [Idle EXCEPT !.op = "kill", !.id = id, !.pre = AfterKill(id),
                              !.proc = get_process(id),
                              !.cleanup = cleanup_files]
       IN \/ /\ c0.proc = 0
             /\ KillFailure(s, c0, "not_found", sessions)
          \/ /\ c0.proc # 0
             /\ calls' = [calls EXCEPT ![s] = [c0 EXCEPT !.pc = "k_check"]]
             /\ last' = NoResult
             /\ UNCHANGED sessions
    /\ UNCHANGED <<policy, reuse, registry, objs, procs, spool, killedOk,
                   returned, termExit, budget>>

\* server.py 415: if process.status not in ["running"]
KillStatusCheck(status) == status # "running"

\* kill_command, from the status check to `await ctx.report_progress(0.5)`.
\* ok1, ok2: whether the first and the second session open succeed;
\* raises: the liveness probe of the not-running branch raises.
KillCheck(s, ok1, ok2, raises, k) ==
    /\ Taken
    /\ calls[s].pc = "k_check"
    /\ LET o == calls[s].proc
           host == objs[o].host
           c0 == [calls[s] EXCEPT !.seen = objs[o].status]
           branch == KillStatusCheck(objs[o].status)
           first == branch /\ CanOpen(host, ok1)
           c1 == IF branch
                 THEN [c0 EXCEPT !.tried = 1, !.opened = IF first THEN 1 ELSE 0,
                                 !.client = first]
                 ELSE c0
           n1 == IF first THEN sessions + 1 ELSE sessions
           probing == first /\ objs[o].pid # NoPid
           c2 == IF probing THEN [c1 EXCEPT !.sent = {"probe"}] ELSE c1
       IN \/ /\ probing /\ raises
             /\ KillFailure(s, [c2 EXCEPT !.raised = k, !.site = "probe"],
                            ExcText(k), n1)
             /\ UNCHANGED objs
          \/ /\ probing /\ ~raises
             /\ Probe(procs, objs[o].pid) = "STOPPED"
             /\ objs' = update_process(objs, registry, c2.id, NoPid, "completed",
                                       NoExit)
             /\ KillFailure(s, c2, "not_running", n1)
          \/ /\ ~raises
             /\ probing => Probe(procs, objs[o].pid) = "RUNNING"
             /\ UNCHANGED objs
             /\ IF c2.client
                THEN /\ calls' = [calls EXCEPT ![s] = [c2 EXCEPT !.pc = "k_kill"]]
                     /\ sessions' = n1
                     /\ last' = NoResult
                ELSE LET second == CanOpen(host, ok2)
                         c3 == [c2 EXCEPT !.tried = @ + 1,
                                          !.opened = IF second THEN 1 ELSE 0,
                                          !.client = second]
                     IN IF second
                        THEN /\ calls' = [calls EXCEPT ![s] =
                                              [c3 EXCEPT !.pc = "k_kill"]]
                             /\ sessions' = n1 + 1
                             /\ last' = NoResult
                        ELSE KillFailure(s, OpenFailed(c3, host), "connect", n1)
    /\ UNCHANGED <<policy, reuse, registry, procs, spool, killedOk, returned,
                   termExit, budget>>

\* kill_command, from kill_background_process to the result, or to
\* `await ctx.report_progress(0.8)` when the spool is to be cleaned up.
KillDo(s, f, d1, d2, k) ==
    /\ Taken
    /\ calls[s].pc = "k_kill"
    /\ LET c0 == calls[s]
           r == kill_background_process(objs, procs, c0.proc, f, d1, d2, k)
           met == IF r.raised # "" THEN r.raised ELSE r.caught
           c == [c0 EXCEPT !.sent = @ \cup r.sent, !.msg = r.message,
                           !.steps = r.steps, !.reports = r.reports,
                           !.raised = met,
                           !.site = IF met # "" THEN "kill" ELSE ""]
           \* except Exception as e around the call: the timeout result when
           \* str(e) says timeout, otherwise re-raised to the outer handler
           text == IF r.raised = "timeout" THEN "kill_timeout"
                   ELSE IF r.raised # "" THEN ExcText(r.raised)
                   ELSE r.message
       IN /\ procs' = r.procs
          /\ \/ /\ ~r.killed
                /\ KillFailure(s, c, text, sessions)
                /\ UNCHANGED <<objs, killedOk>>
             \/ /\ r.killed
                /\ objs' = update_process(objs, registry, c.id, NoPid, "killed",
                                          NoExit)
                /\ IF c.cleanup
                   THEN /\ calls' = [calls EXCEPT ![s] =
                                         [c EXCEPT !.pc = "k_cleanup"]]
                        /\ last' = NoResult
                        /\ UNCHANGED <<sessions, killedOk>>
                   ELSE /\ Return(s, c, Result(c, [success |-> TRUE,
                                                   process_id |-> c.id,
                                                   message |-> r.message]),
                                  sessions)
                        /\ killedOk' = killedOk \cup {c.id}
    /\ UNCHANGED <<policy, reuse, registry, spool, returned, termExit, budget>>

cleanup_process_files_silent(sp, o, raises) ==
    [cleaned |-> TRUE, spool |-> IF raises THEN sp ELSE [sp EXCEPT ![o] = EmptySpool]]

\* cleanup_process_files: rm -f of the three spool files; False when the
\* remote command cannot be issued.
cleanup_process_files(sp, o, raises) ==
    [cleaned |-> ~raises,
     spool |-> IF raises THEN sp ELSE [sp EXCEPT ![o] = EmptySpool]]

\* kill_command, the cleanup and the result.
KillCleanup(s, raises) ==
    /\ Taken
    /\ calls[s].pc = "k_cleanup"
    /\ LET r == cleanup_process_files(spool, calls[s].proc, raises)
           c == [calls[s] EXCEPT !.sent = @ \cup {"rm"},
                                 !.raised = IF raises THEN "other" ELSE "",
                                 !.site = IF raises THEN "rm" ELSE ""]
       IN /\ spool' = r.spool
          /\ Return(s, c, Result(c, [success |-> TRUE, process_id |-> c.id,
                                     message |-> IF r.cleaned
                                                 THEN c.msg \o "+cleaned"
                                                 ELSE c.msg \o "+warning"]),
                    sessions)
          /\ killedOk' = killedOk \cup {c.id}
    /\ UNCHANGED <<policy, reuse, registry, objs, procs, returned, termExit, budget>>

\* The calls in flight that hold an open session.
Holding == {s \in Slots : calls[s].client}

\* transfer_file, from entry to `await ctx.report_progress(0.5)`: the session.
TransferBegin(s, h, ok) ==
    /\ Taken
    /\ Free(s)
    /\ LET c0 == [Idle EXCEPT !.op = "transfer", !.host = h, !.tried = 1]
       IN IF CanOpen(h, ok)
          THEN /\ calls' = [calls EXCEPT ![s] =
                                [c0 EXCEPT !.pc = "t_progress", !.opened = 1,
                                           !.client = TRUE]]
               /\ sessions' = sessions + 1
               /\ last' = NoResult
          ELSE LET c1 == OpenFailed(c0, h)
               IN Return(s, c1, Result(c1, [success |-> FALSE,
                                            error_message |-> "connect"]),
                         sessions)
    /\ UNCHANGED <<policy, reuse, registry, objs, procs, spool, killedOk,
                   returned, termExit, budget>>

\* transfer_file at `await ctx.report_progress(0.5)`, between the opening of
\* the session and the inner try.  When the notification raises (the caller's
\* stream is closed) the outer except answers; the handler has no outer
\* finally, so the session it opened stays open.
TransferProgress(s, raises) ==
    /\ Taken
    /\ calls[s].pc = "t_progress"
    /\ IF raises
       THEN /\ sessions - Cardinality(Holding) < MaxLeak
            /\ LET c == [calls[s] EXCEPT !.raised = "other", !.site = "progress"]
               IN /\ calls' = [calls EXCEPT ![s] = Idle]
                  /\ last' = Result(c, [success |-> FALSE,
                                        error_message |-> ExcText("other"),
                                        open_after |-> 1])
                  /\ sessions' = sessions
       ELSE /\ calls' = [calls EXCEPT ![s].pc = "t_copy"]
            /\ last' = NoResult
            /\ sessions' = sessions
    /\ UNCHANGED <<policy, reuse, registry, objs, procs, spool, killedOk,
                   returned, termExit, budget>>

\* transfer_file, the rest: transfer_file_scp, the inner finally that closes
\* the session, and the result.
TransferDo(s, raises, k) ==
    /\ Taken
    /\ calls[s].pc = "t_copy"
    /\ LET c == IF raises
                THEN [calls[s] EXCEPT !.sent = {"scp"}, !.raised = k, !.site = "scp"]
                ELSE [calls[s] EXCEPT !.sent = {"scp"}]
       IN Return(s, c,
                 Result(c, IF ~raises THEN [success |-> TRUE]
                           ELSE [success |-> FALSE,
                                 error_message |-> IF k = "timeout" THEN "timeout"
                                                   ELSE ExcText(k)]),
                 sessions)
    /\ UNCHANGED <<policy, reuse, registry, objs, procs, spool, killedOk,
                   returned, termExit, budget>>

---------------------------------------------------------------------------
\* The kind of the exception matters only when a remote command raises.
Kinds(f) == IF f = 0 THEN {"other"} ELSE ExcKinds

\* The exceptions kill_command tells apart around kill_background_process:
\* those whose text says timeout and the others.
KillKinds(f) == IF f = 0 THEN {"other"} ELSE {"timeout", "other"}

\* The outcomes worth telling apart: a choice is drawn only where it is read.
Opens(both) == IF both THEN BOOLEAN ELSE {both}

Faults(ok, n) == IF ok THEN 0..n ELSE {0}

\* The life cycle of the launched commands under concurrent tool calls, with
\* every failure of the session layer; the commands write no output.
Next ==
    \/ TakeResult
    \/ \E p \in DOMAIN procs, code \in ExitCodes : ProcExit(p, code)
    \/ \E s \in Slots, h \in Hosts, c \in Commands, id \in Ids :
           \E ok \in Opens(h \in KnownHosts) : ExecBegin(s, h, c, ok, id)
    \/ \E s \in Slots, how \in {"ok", "nostart", "lost"} :
           \E k \in Kinds(IF how = "ok" THEN 0 ELSE 1) : ExecLaunch(s, how, k)
    \/ \E s \in Slots, f \in 0..4 : \E k \in Kinds(f) : ExecPoll(s, f, k)
    \/ \E s \in Slots, id \in Ids, ok \in BOOLEAN :
           \E f \in Faults(ok, 4) : \E k \in Kinds(f) : GetStatus(s, id, ok, f, k)
    \/ \E s \in Slots, id \in Ids : OutBegin(s, id, 0, 0)
    \/ \E s \in Slots, ok \in BOOLEAN :
           \E f \in Faults(ok, 6) : \E k \in Kinds(f) : OutBody(s, ok, f, k)
    \/ \E s \in Slots, id \in Ids, cleanup_files \in BOOLEAN :
           KillBegin(s, id, cleanup_files)
    \/ \E s \in Slots, ok1 \in BOOLEAN :
           \E ok2 \in Opens(~ok1), raises \in Opens(ok1) :
               \E k \in Kinds(IF raises THEN 1 ELSE 0) :
                   KillCheck(s, ok1, ok2, raises, k)
    \/ \E s \in Slots, f \in 0..4, d1 \in BOOLEAN :
           \E d2 \in Opens(~d1), k \in KillKinds(f) :
               KillDo(s, f, d1, d2, k)
    \/ \E s \in Slots, raises \in BOOLEAN : KillCleanup(s, raises)
    \/ \E s \in Slots, h \in Hosts :
           \E ok \in Opens(h \in KnownHosts) : TransferBegin(s, h, ok)
    \/ \E s \in Slots : TransferProgress(s, FALSE)
    \/ \E s \in Slots, raises \in BOOLEAN :
           \E k \in Kinds(IF raises THEN 1 ELSE 0) : TransferDo(s, raises, k)

\* The notifications a handler sends through ctx between its remote calls do
\* not raise in Spec.
Spec == Init /\ [][Next]_vars

\* transfer_file alone, its progress notification raising or not.
TransferNext ==
    \/ TakeResult
    \/ \E s \in Slots, h \in Hosts :
           \E ok \in Opens(h \in KnownHosts) : TransferBegin(s, h, ok)
    \/ \E s \in Slots, raises \in BOOLEAN : TransferProgress(s, raises)
    \/ \E s \in Slots, raises \in BOOLEAN :
           \E k \in Kinds(IF raises THEN 1 ELSE 0) : TransferDo(s, raises, k)

TransferSpec == Init /\ [][TransferNext]_vars

\* execute_command calls alone, one more of them than there are identifiers:
\* uuid4()[:8] gives the later call an identifier the registry already holds.
CollideInit ==
    /\ policy = NoValidator
    /\ reuse = FALSE
    /\ registry = [i \in Ids |-> 0]
    /\ objs = <<>>
    /\ procs = <<>>
    /\ spool = <<>>
    /\ sessions = 0
    /\ calls = [s \in Slots |-> Idle]
    /\ last = NoResult
    /\ killedOk = {}
    /\ returned = {}
    /\ termExit = [i \in Ids |-> {}]
    /\ budget = MaxIds + 1

CollideNext ==
    \/ TakeResult
    \/ \E p \in DOMAIN procs, code \in ExitCodes : ProcExit(p, code)
    \/ \E s \in Slots, id \in Ids : ExecBegin(s, "h1", <<"l", "s">>, TRUE, id)
    \/ \E s \in Slots, how \in {"ok", "lost"} : ExecLaunch(s, how, "other")
    \/ \E s \in Slots : ExecPoll(s, 0, "other")

CollideSpec == CollideInit /\ [][CollideNext]_vars

\* get_ssh_client_from_config called on its own; the session it returns is
\* closed at once.
OpenSession(in) ==
    /\ Taken
    /\ LET r == get_ssh_client_from_config(in)
       IN last' = [NoResult EXCEPT !.op = "open", !.input = in,
                                   !.success = r.client, !.steps = r.steps,
                                   !.tried = 1,
                                   !.opened = IF r.client THEN 1 ELSE 0]
    /\ UNCHANGED <<policy, reuse, registry, objs, procs, spool, sessions, calls,
                   killedOk, returned, termExit, budget>>

OpenNext ==
    \/ TakeResult
    \/ \E in \in OpenInputs : OpenSession(in)

OpenSpec == Init /\ [][OpenNext]_vars

\* validate_command(command, host) called on its own.
Validate(c, h, u) ==
    /\ Taken
    /\ policy' = get_validator(policy)
    /\ LET r == validate_command(get_validator(policy), c, h, u)
       IN last' = [NoResult EXCEPT !.op = "validate", !.command = c,
                                   !.host = h, !.user = u,
                                   !.success = r.allowed, !.message = r.reason]
    /\ UNCHANGED <<reuse, registry, objs, procs, spool, sessions, calls,
                   killedOk, returned, termExit, budget>>

\* The gate alone, under every validator of GatePolicies.
GateInit ==
    /\ policy \in GatePolicies
    /\ reuse = FALSE
    /\ registry = [i \in Ids |-> 0]
    /\ objs = <<>>
    /\ procs = <<>>
    /\ spool = <<>>
    /\ sessions = 0
    /\ calls = [s \in Slots |-> Idle]
    /\ last = NoResult
    /\ killedOk = {}
    /\ returned = {}
    /\ termExit = [i \in Ids |-> {}]
    /\ budget = MaxObjs

GateNext ==
    \/ TakeResult
    \/ \E c \in GateCommands, h \in Hosts, u \in Users : Validate(c, h, u)
    \/ \E s \in Slots, c \in Commands, id \in Ids : ExecBegin(s, "h1", c, TRUE, id)
    \/ \E s \in Slots : ExecLaunch(s, "ok", "other")

GateSpec == GateInit /\ [][GateNext]_vars

\* One caller at a time reading a command's output in chunks while the
\* command writes and ends; no failure of the session layer.
ChunkNext ==
    \/ TakeResult
    \/ \E p \in DOMAIN procs, b \in Bytes :
           Len(spool[procs[p].obj].out) < MaxSpool /\ ProcWrite(p, b)
    \/ \E p \in DOMAIN procs, code \in ExitCodes : ProcExit(p, code)
    \/ \E id \in Ids : ExecBegin(1, "h1", <<"l", "s">>, TRUE, id)
    \/ ExecLaunch(1, "ok", "other")
    \/ ExecPoll(1, 0, "other")
    \/ \E id \in Ids, start_byte \in 0..MaxSpool, size \in 0..MaxChunk :
           OutBegin(1, id, start_byte, size)
    \/ OutBody(1, TRUE, 0, "other")
    \/ \E id \in Ids, cleanup_files \in BOOLEAN : KillBegin(1, id, cleanup_files)
    \/ KillCheck(1, TRUE, TRUE, FALSE, "other")
    \/ \E d1 \in BOOLEAN : KillDo(1, 0, d1, TRUE, "other")
    \/ KillCleanup(1, FALSE)

ChunkSpec == Init /\ [][ChunkNext]_vars

---------------------------------------------------------------------------
\* Properties.

Rejected(r) ==
    ~validate_command(get_validator(policy), r.command, r.host, "").allowed

\* C1: an execute_command whose command the gate rejects attempts and opens no
\* session, issues no remote command, creates no registry record, and returns
\* success=false, status 'failed', process_id '' and the policy-violation error.
C1_RejectedNoRemoteEffect ==
    (last.op = "execute" /\ Rejected(last)) =>
        /\ last.tried = 0 /\ last.opened = 0 /\ last.sent = {}
        /\ last.created = 0
        /\ ~last.success /\ last.status = "failed" /\ last.process_id = NoId
        /\ last.error_message = "policy"

C1_Witness ==
    /\ last.op = "execute" /\ Rejected(last) /\ last.command = <<"r", "m">>
    /\ objs # <<>>

\* C2: a failed execute_command leaves no record of its own in the registry.
C2_FailedExecuteLeavesNoRecord ==
    (last.op = "execute" /\ ~last.success) =>
        (last.created = 0 \/ \A i \in Ids : registry[i] # last.created)

StatusOf(os, reg, i) == IF reg[i] = 0 THEN "" ELSE os[reg[i]].status

\* C3: once the registry status of an id is not 'running', no step of any tool
\* call moves it back to 'running'.
C3_StatusMonotonic ==
    [][\A i \in Ids :
          StatusOf(objs, registry, i) \notin {"", "running"}
              => StatusOf(objs', registry', i) # "running"]_vars

\* C4: a get_command_status issued after a kill_command on the id has returned
\* success reports 'killed', and leaves 'killed' in the registry.
C4_KilledStaysKilled ==
    (last.op = "status" /\ last.pre = "after_kill" /\ last.success) =>
        /\ last.status = "killed"
        /\ StatusOf(objs, registry, last.req_id) = "killed"

\* C5: a kill_command issued after a kill_command on the id has returned
\* success fails with the not-running error and sends no SIGTERM or SIGKILL.
C5_SecondKillNotRunning ==
    (last.op = "kill" /\ last.pre = "after_kill") =>
        /\ ~last.success
        /\ last.error_message = "not_running"
        /\ last.sent \cap {"term", "kill9"} = {}

NotRunningSeen(r) == r.seen \notin {"", "running"}

\* C6: a kill_command that finds the registry status not 'running' returns the
\* not-running error having attempted no session and issued no remote command,
\* neither a liveness probe nor a signal.
C6_NonRunningKillShortCircuits ==
    (last.op = "kill" /\ NotRunningSeen(last)) =>
        /\ last.error_message = "not_running"
        /\ last.tried = 0 /\ last.sent = {}

SpoolOf(i) == IF registry[i] = 0 THEN <<>> ELSE spool[registry[i]].out

\* C7: reading chunk after chunk loses nothing: every chunk is the bytes asked
\* for, and a response that ends the reading (has_more_output = false with a
\* status other than 'running') has reached the end of the stdout spool.
C7_ChunkedReadLossless ==
    (last.op = "output" /\ last.success) =>
        /\ encode(last.stdout) =
               SubSeq(SpoolOf(last.req_id), last.chunk_start + 1,
                      Min(last.chunk_start + last.size,
                          Len(SpoolOf(last.req_id))))
        /\ (~last.has_more_output /\ last.status # "running") =>
               last.chunk_start + Len(encode(last.stdout))
                   >= Len(SpoolOf(last.req_id))

\* C8: a chunk read returns exactly the spool's bytes [offset, offset + size),
\* fewer when the spool is shorter, and has_more is true exactly when the spool
\* holds a byte at offset + size, whatever that byte is.
C8_HasMoreIffByteExists ==
    (last.op = "output" /\ last.success /\ last.size >= 1) =>
        /\ encode(last.stdout) =
               SubSeq(SpoolOf(last.req_id), last.chunk_start + 1,
                      Min(last.chunk_start + last.size,
                          Len(SpoolOf(last.req_id))))
        /\ last.has_more_output <=>
               Len(SpoolOf(last.req_id)) > last.chunk_start + last.size

\* C9: once a get_command_status on an id has given a terminal status, every
\* later get_command_status on it gives the same exit code.
C9_ExitCodeIdempotent ==
    (last.op = "status" /\ last.success /\ termExit[last.req_id] # {}) =>
        last.exit_code \in termExit[last.req_id]

Statuses == {"running", "completed", "failed", "killed", "timeout"}

\* C10: a get_command_status on an id that execute_command has handed out
\* answers for that id with a known status, and never with not-found.
C10_ReturnedIdStaysKnown ==
    (last.op = "status" /\ last.req_id \in returned) =>
        /\ last.process_id = last.req_id
        /\ last.status \in Statuses
        /\ last.error_message # "not_found"
        /\ registry[last.req_id] # 0

C10_Witness ==
    /\ last.op = "status" /\ last.req_id \in returned /\ last.success
    /\ last.status = "completed"

\* C11: whenever a remote call of execute_command (launch or poll), of
\* get_command_output (chunk read, has-more probe or the poll after them) or of
\* get_command_status raises a timeout, the call returns status 'timeout' with
\* success false and an error message.
C11_TimeoutBecomesTimeoutStatus ==
    (last.op \in {"execute", "output", "status"} /\ last.raised = "timeout") =>
        /\ last.status = "timeout"
        /\ ~last.success
        /\ last.error_message # ""

Signals == {"term", "kill9", "rm"}

\* C12: a get_command_output or get_command_status call that meets a timeout
\* returns status 'timeout' and leaves the process as it was: no signal sent,
\* no spool file removed, the registry record unchanged.
C12_TimeoutLeavesProcessUntouched ==
    [][(last'.op \in {"output", "status"} /\ last'.raised = "timeout") =>
          /\ last'.status = "timeout"
          /\ last'.sent \cap Signals = {}
          /\ registry' = registry /\ objs' = objs
          /\ procs' = procs /\ spool' = spool]_vars

\* C13: with connection reuse disabled, every session a tool call opened
\* (transfer_file included) is closed when the call returns, on every path, and
\* no call holds more than one open session: the open sessions are exactly one
\* per call in flight that holds one.
C13_SessionsClosedOnReturn ==
    ~reuse =>
        /\ sessions = Cardinality(Holding)
        /\ \A s \in Slots :
              /\ calls[s].pc = "idle" => ~calls[s].client
              /\ calls[s].opened <= 1
              /\ calls[s].client => calls[s].opened = 1
        /\ last.opened <= 1 /\ last.open_after = 0

\* C14: get_command_output, get_command_status and kill_command on an id the
\* registry does not hold return success false with the not-found error, try
\* to open no session, send no remote command and leave the registry unchanged.
C14_UnknownIdNoEffect ==
    [][(last'.op \in {"output", "status", "kill"}
          /\ get_process(last'.req_id) = 0) =>
          /\ ~last'.success
          /\ last'.error_message = "not_found"
          /\ last'.tried = 0 /\ last'.opened = 0
          /\ last'.sent = {}
          /\ sessions' = sessions
          /\ registry' = registry /\ objs' = objs
          /\ procs' = procs /\ spool' = spool]_vars

C14_Witness ==
    /\ last.op \in {"output", "status", "kill"}
    /\ last.error_message = "not_found" /\ last.tried = 0
    /\ registry[last.req_id] = 0

\* The text of the exception a call met is in its result: bare (str(e)), or
\* inside the message the handler builds around it.
HasText(r) ==
    \/ r.error_message = ExcText(r.raised)
    \/ r.raised = "timeout" /\ r.error_message = "timeout"
    \/ r.site = "launch" /\ r.error_message = "exc_launch"
    \/ r.site = "kill" /\ r.error_message = "error_killing"

C16_ErrorMessageIffFailure ==
    last.op # "" => (last.error_message = "" <=> last.success)

\* C17: get_command_status sends the liveness check and, when the process is
\* not live, the exit-code read, and no other remote command: it reads neither
\* the stdout nor the stderr spool.
C17_StatusOnlyReadsNoOutput ==
    last.op = "status" => last.sent \subseteq {"probe", "read_exit"}

\* The session of an execute_command could not be opened: the alias is not in
\* the SSH configuration, or the opening raised.
Unopenable(r) ==
    r.host \notin KnownHosts \/ (r.tried >= 1 /\ r.opened = 0)

\* C18: an execute_command that passes the gate to a host whose session cannot
\* be opened returns success false, status 'failed' and the connection error,
\* and creates no record.
C18_UnopenableHostNoRecord ==
    [][(last'.op = "execute" /\ ~Rejected(last') /\ Unopenable(last')) =>
          /\ ~last'.success
          /\ last'.status = "failed"
          /\ last'.error_message = "connect"
          /\ last'.process_id = NoId /\ last'.created = 0
          /\ last'.sent = {}
          /\ registry' = registry /\ objs' = objs]_vars

C18_Witness ==
    /\ last.op = "execute" /\ ~Rejected(last) /\ Unopenable(last)
    /\ last.error_message = "connect"

\* The spool's exit code of the record an execute_command created.
ExitOf(r) == spool[r.created].exit

\* C19: an execute_command that launched its command and saw it ended returns
\* success true, status 'completed' and the command's exit code, a non-zero
\* code included; a status 'failed' comes only with success false.
C19_NonZeroExitIsSuccess ==
    /\ (last.op = "execute" /\ last.status = "failed") => ~last.success
    /\ (/\ last.op = "execute" /\ last.raised = "" /\ last.created # 0
        /\ "read_exit" \in last.sent
        /\ ExitOf(last) # NoExit) =>
           /\ last.success
           /\ last.status = "completed"
           /\ last.exit_code = ExitOf(last)

C19_Witness ==
    /\ last.op = "execute" /\ last.success /\ last.status = "completed"
    /\ "read_exit" \in last.sent
    /\ last.exit_code = 1 /\ ExitOf(last) = 1

\* The bytes the poll of an execute_command got from `head -c MAX_OUTPUT_SIZE`.
Polled(r) ==
    LET sp == spool[r.created]
    IN IF sp.has THEN SubSeq(sp.out, 1, Min(MAX_OUTPUT_SIZE, Len(sp.out)))
       ELSE <<"\n">>

\* C20: a successful execute_command returns output_size = len(stdout), at
\* most MAX_OUTPUT_SIZE, and chunk_start 0; has_more_output is true exactly
\* when the poll returned MAX_OUTPUT_SIZE bytes or more; and stdout is the
\* bytes [0, len(stdout)) of the spool, so that a get_command_output at
\* start_byte = len(stdout) goes on without gap or overlap.
C20_ExecuteTruncationSignalling ==
    (last.op = "execute" /\ last.success) =>
        /\ last.output_size = Len(last.stdout)
        /\ last.output_size <= MAX_OUTPUT_SIZE
        /\ last.chunk_start = 0
        /\ last.has_more_output <=> Len(Polled(last)) >= MAX_OUTPUT_SIZE
        /\ encode(last.stdout) = SubSeq(spool[last.created].out, 1, Len(last.stdout))

\* C21: whatever the mode, validate_command rejects a command that is empty
\* or holds white space only.
C21_EmptyCommandRejected ==
    (last.op = "validate" /\ strip(last.command) = <<>>) => ~last.success

\* The reference policy of the gate for a command that is not empty.
Reference(v, command) ==
    IF v.security_mode = "disabled" THEN TRUE
    ELSE IF v.security_mode = "blacklist"
    THEN ~\E i \in 1..Len(v.blacklist_patterns) :
             search(v.blacklist_patterns[i], command, v.case_sensitive)
    ELSE \E i \in 1..Len(v.whitelist_patterns) :
             search(v.whitelist_patterns[i], command, v.case_sensitive)

\* C22: for a command that is not empty, in the modes disabled, blacklist and
\* whitelist, the decision of validate_command is the reference policy:
\* allowed when disabled; rejected exactly when a deny pattern matches
\* somewhere in the command; allowed exactly when an allow pattern does.
C22_DecisionIsReferencePolicy ==
    (/\ last.op = "validate" /\ strip(last.command) # <<>>
     /\ policy.security_mode \in {"disabled", "blacklist", "whitelist"}) =>
        (last.success <=> Reference(policy, last.command))

\* C23: once the validator is built no step changes its mode, its case flag
\* or its pattern lists, so the same command gets the same decision at any
\* two points of a run.
C23_PolicyImmutable ==
    [][policy # NoValidator =>
          /\ policy' = policy
          /\ \A c \in GateCommands :
                validate_command(get_validator(policy'), c, "h1", "")
                    = validate_command(get_validator(policy), c, "h1", "")]_vars

\* The gate has run for two execute_command calls: one passed and created a
\* record, a later one was rejected.
C23_Witness ==
    /\ policy # NoValidator
    /\ objs # <<>>
    /\ last.op = "execute" /\ last.error_message = "policy"

\* C24: start_process never returns an identifier that is already a key of
\* the registry: no step puts another record under a key that has one.
C24_NoIdReuse ==
    [][\A id \in Ids : registry[id] # 0 => registry'[id] = registry[id]]_vars

\* C25: every execute_command response that carries a process id refers to a
\* registry record whose launch succeeded and whose PID is set.
C25_ReturnedIdIsLaunched ==
    (last.op = "execute" /\ last.process_id # NoId) =>
        /\ get_process(last.process_id) # 0
        /\ objs[get_process(last.process_id)].pid # NoPid

\* The orders in which get_ssh_client_from_config may take its steps.
OpenOrders ==
    { <<>>, <<"connect">>, <<"load_plain">>, <<"load_plain", "connect">>,
      <<"load_plain", "load_phrase">>, <<"load_plain", "load_phrase", "connect">> }

Attempted(r, step) == \E i \in 1..Len(r.steps) : r.steps[i] = step

\* C26: get_ssh_client_from_config loads the identity key without passphrase
\* first and tries the passphrase of SSH_KEY_PHRASE only after that load has
\* failed; when the alias is unknown, the key file is missing, or the first
\* load fails and no passphrase is set, it returns no session and attempts no
\* connection; it raises nothing.
C26_OpenAuthOrder ==
    last.op = "open" =>
        /\ last.steps \in OpenOrders
        /\ Attempted(last, "load_phrase") =>
               last.input.plain = "ssh_exception" /\ last.input.phrase
        /\ (\/ ~last.input.alias
            \/ last.input.keyfile = "missing"
            \/ (/\ last.input.keyfile = "present" /\ last.input.plain # "ok"
                /\ ~last.input.phrase)) =>
               ~last.success /\ ~Attempted(last, "connect")
        /\ last.success => Attempted(last, "connect") /\ last.input.connect
        /\ last.raised = ""

\* The key needed its passphrase and the session was opened with it.
C26_Witness ==
    /\ last.op = "open" /\ last.success
    /\ last.steps = <<"load_plain", "load_phrase", "connect">>

\* The orders in which kill_background_process may take its remote steps: the
\* whole escalation or a part of it from the start.
KillOrders ==
    {<<>>, <<"term">>, <<"term", "wait", "probe">>,
     <<"term", "wait", "probe", "kill9">>,
     <<"term", "wait", "probe", "kill9", "probe">>}

ProbesIn(steps) == Cardinality({i \in DOMAIN steps : steps[i] = "probe"})

\* The last probe of the escalation was performed to its end and read STOPPED.
LastProbeStopped(r) ==
    /\ r.reports # <<>>
    /\ Len(r.reports) = ProbesIn(r.steps)
    /\ r.reports[Len(r.reports)] = "STOPPED"

\* C27 (last.proc is the record the kill_command fetched from the registry):
\* a kill on a record with no PID fails and sends no remote command;
\* otherwise the remote steps are SIGTERM, a wait, a liveness probe and, only
\* when that probe read RUNNING, SIGKILL and a second probe, in this order;
\* SIGKILL is never sent after a first probe that read STOPPED; the kill
\* succeeds, as terminated gracefully or force killed, exactly when the last
\* probe performed read STOPPED.
C27_KillEscalationOrder ==
    (last.op = "kill" /\ last.proc # 0) =>
        /\ objs[last.proc].pid = NoPid =>
               ~last.success /\ last.sent = {} /\ last.steps = <<>>
        /\ last.steps \in KillOrders
        /\ Attempted(last, "kill9") =>
               last.reports # <<>> /\ last.reports[1] = "RUNNING"
        /\ (last.reports # <<>> /\ last.reports[1] = "STOPPED") =>
               last.steps = <<"term", "wait", "probe">>
        /\ last.success <=> LastProbeStopped(last)
        /\ last.success =>
               \E m \in {"graceful", "forced"} :
                   /\ SubSeq(last.message, 1, Len(m)) = m
                   /\ (m = "forced") <=> Attempted(last, "kill9")

C27_Witness ==
    /\ last.op = "kill"
    /\ last.success
    /\ last.steps = <<"term", "wait", "probe", "kill9", "probe">>
    /\ last.reports = <<"RUNNING", "STOPPED">>

\* C28: the step in which a kill_command returns success = FALSE leaves the
\* status, the pid and the exit code of the record it was called on as they
\* were, and a record's status becomes killed only in a step of a kill_command
\* on it whose kill protocol succeeded.
C28_OnlySuccessfulKillChangesRecord ==
    [][/\ (/\ last'.op = "kill" /\ ~last'.success
           /\ last'.req_id # NoId /\ registry[last'.req_id] # 0) =>
              LET o == registry[last'.req_id]
              IN /\ objs'[o].status = objs[o].status
                 /\ objs'[o].pid = objs[o].pid
                 /\ objs'[o].exit_code = objs[o].exit_code
       /\ \A o \in DOMAIN objs :
              (objs[o].status # "killed" /\ objs'[o].status = "killed") =>
                  \E s \in Slots :
                      /\ calls[s].pc = "k_kill" /\ calls[s].proc = o
                      /\ \/ calls'[s].pc = "k_cleanup"
                         \/ last'.op = "kill" /\ last'.success]_vars

\* The kill result's message ends with the warning of a cleanup that failed.
Warned(r) ==
    /\ Len(r.message) >= Len("+warning")
    /\ SubSeq(r.message, Len(r.message) - Len("+warning") + 1, Len(r.message))
           = "+warning"

\* C29: a kill_command sends the rm of the spool files only after its kill
\* protocol succeeded and only when cleanup_files was set; when the rm fails,
\* the response is still a success, its message ends with the warning and the
\* registry status of the record is killed; a kill that fails sends no rm.
C29_CleanupOnlyAfterKill ==
    last.op = "kill" =>
        /\ "rm" \in last.sent => LastProbeStopped(last) /\ last.cleanup
        /\ ~last.success => "rm" \notin last.sent
        /\ last.site = "rm" =>
               /\ last.success
               /\ Warned(last)
               /\ objs[registry[last.req_id]].status = "killed"

\* C30: a record has a PID only if the launch of its own execute_command
\* returned that PID, and an execute_command whose launch failed returns
\* success = FALSE and leaves the record it created without PID.
C30_PidOnlyFromOwnLaunch ==
    /\ \A o \in DOMAIN objs :
           objs[o].pid # NoPid =>
               objs[o].pid \in DOMAIN procs /\ procs[objs[o].pid].obj = o
    /\ (last.op = "execute" /\ last.site = "launch") =>
           ~last.success /\ objs[last.created].pid = NoPid

\* C31: a registry record whose status is running has no exit code, and a
\* response whose status is running carries no exit code.
C31_RunningHasNoExitCode ==
    /\ \A o \in DOMAIN objs :
           objs[o].status = "running" => objs[o].exit_code = NoExit
    /\ last.status = "running" => last.exit_code = NoExit

\* The registries update_process is applied to: up to two records, made by
\* start_process and changed by earlier updates, the last one under the key.
UpdateRecords ==
    [process_id : {1}, host : {"h1"}, pid : {NoPid, 1},
     status : {"running", "completed", "killed"},
     exit_code : {NoExit} \cup ExitCodes]

UpdateInit ==
    /\ policy = NoValidator
    /\ reuse = FALSE
    /\ objs \in {<<>>} \cup {<<r>> : r \in UpdateRecords}
                \cup {<<r, q>> : r \in UpdateRecords, q \in UpdateRecords}
    /\ registry = [i \in Ids |-> IF i = 1 THEN Len(objs) ELSE 0]
    /\ procs = [o \in DOMAIN objs |-> [live |-> FALSE, obj |-> o]]
    /\ spool = [o \in DOMAIN objs |-> EmptySpool]
    /\ sessions = 0
    /\ calls = [s \in Slots |-> Idle]
    /\ last = NoResult
    /\ killedOk = {}
    /\ returned = {}
    /\ termExit = [i \in Ids |-> {}]
    /\ budget = 0

\* process_manager.update_process(id, pid=..., status=..., exit_code=...), one
\* call of it: the method has no await, so no other tool call runs inside it.
\* NoPid, "" and NoExit are the arguments left at None.
Update(id, pid, status, exit_code) ==
    /\ Taken
    /\ objs' = update_process(objs, registry, id, pid, status, exit_code)
    /\ last' = [NoResult EXCEPT !.op = "update", !.req_id = id, !.pid = pid,
                                !.status = status, !.exit_code = exit_code]
    /\ UNCHANGED <<policy, reuse, registry, procs, spool, sessions, calls,
                   killedOk, returned, termExit, budget>>

UpdateNext ==
    \/ TakeResult
    \/ \E id \in Ids, pid \in {NoPid, 1, 2},
          status \in {"", "running", "completed", "killed"},
          exit_code \in {NoExit} \cup ExitCodes :
           Update(id, pid, status, exit_code)

UpdateSpec == UpdateInit /\ [][UpdateNext]_vars

\* C32: an update changes exactly the fields it was given, of the record under
\* its id; it leaves the record's other fields and every other record as they
\* were, and does nothing for an id with no record.  Every change of the
\* registry's records is one whole update: updates of concurrent tool calls
\* take effect one after the other.
C32_UpdateIsPartialMerge ==
    [][/\ objs' # objs => last'.op = "update"
       /\ last'.op = "update" =>
              LET o == registry[last'.req_id]
              IN IF o = 0 THEN objs' = objs
                 ELSE /\ DOMAIN objs' = DOMAIN objs
                      /\ \A k \in DOMAIN objs : k # o => objs'[k] = objs[k]
                      /\ objs'[o].process_id = objs[o].process_id
                      /\ objs'[o].host = objs[o].host
                      /\ objs'[o].pid = IF last'.pid # NoPid THEN last'.pid
                                        ELSE objs[o].pid
                      /\ objs'[o].status = IF last'.status # ""
                                           THEN last'.status
                                           ELSE objs[o].status
                      /\ objs'[o].exit_code = IF last'.exit_code # NoExit
                                              THEN last'.exit_code
                                              ELSE objs[o].exit_code]_vars

C32_Witness ==
    /\ last.op = "update" /\ last.status = "running"
    /\ last.pid = NoPid /\ last.exit_code = NoExit
    /\ Len(objs) = 2
    /\ objs[2].status = "running" /\ objs[2].pid = 1 /\ objs[2].exit_code = 0
    /\ objs[1].status = "killed"

\* C33: an execute_command that launched its command and polled it returns
\* status completed with the exit code the command left when the command has
\* ended by the poll, status running without exit code when it is still live,
\* and the registry status under the returned id is the status returned.
C33_QuickWaitPollsOnce ==
    (last.op = "execute" /\ last.success) =>
        /\ {"launch", "read_out"} \subseteq last.sent
        /\ LiveFor(last.created) =>
               last.status = "running" /\ last.exit_code = NoExit
        /\ ~LiveFor(last.created) =>
               /\ last.status = "completed"
               /\ last.exit_code = spool[last.created].exit
        /\ objs[registry[last.process_id]].status = last.status

\* kill_command calls, one at a time, on commands that end on their own only
\* while no kill_command is in flight: a command that has ended when the kill
\* protocol runs had ended when the kill_command started.
EndedNext ==
    \/ TakeResult
    \/ \E p \in DOMAIN procs, code \in ExitCodes :
           /\ \A s \in Slots : calls[s].op # "kill"
           /\ ProcExit(p, code)
    \/ \E s \in Slots, id \in Ids : ExecBegin(s, "h1", <<"l", "s">>, TRUE, id)
    \/ \E s \in Slots : ExecLaunch(s, "ok", "other")
    \/ \E s \in Slots : ExecPoll(s, 0, "other")
    \/ \E s \in Slots, id \in Ids : GetStatus(s, id, TRUE, 0, "other")
    \/ \E id \in Ids, cleanup_files \in BOOLEAN : KillBegin(1, id, cleanup_files)
    \/ KillCheck(1, TRUE, TRUE, FALSE, "other")
    \/ \E d1 \in BOOLEAN : \E d2 \in Opens(~d1) : KillDo(1, 0, d1, d2, "other")
    \/ KillCleanup(1, FALSE)

EndedSpec == Init /\ [][EndedNext]_vars

\* C34: a kill_command on a command that had already ended when the call
\* started does not mark the record killed, does not return success = TRUE and
\* does not go on to remove the spool files.
C34_NoKillOfEndedCommand ==
    [][\A s \in Slots :
           (/\ calls[s].pc = "k_kill" /\ calls'[s].pc # "k_kill"
            /\ EndedFor(calls[s].proc)) =>
               /\ last'.op = "kill" /\ ~last'.success
               /\ objs' = objs]_vars

\* Another kill_command on the same id has seen the process stopped: it has
\* returned success, or it is about to clean up.
StoppedSeenByOther(s) ==
    \/ calls[s].id \in killedOk
    \/ \E t \in Slots \ {s} :
           calls[t].pc = "k_cleanup" /\ calls[t].id = calls[s].id

\* C35: of the kill_command calls on one id that overlap in time at most one
\* returns success = TRUE, and a call that runs its kill protocol after another
\* one has seen the process stopped sends no SIGTERM and no SIGKILL.  (A call
\* with pre = "" started before any kill of the id had returned success.)
C35_OverlappingKillsOneSuccess ==
    [][\A s \in Slots :
           (/\ calls[s].pc = "k_kill" /\ calls'[s].pc # "k_kill"
            /\ calls[s].pre = ""
            /\ StoppedSeenByOther(s)) =>
               /\ last'.op = "kill" /\ ~last'.success
               /\ ~Attempted(last', "term")
               /\ ~Attempted(last', "kill9")]_vars

C37_KillFaultIsOrdinaryFailure ==
    [][(last'.op = "kill" /\ last'.site = "kill" /\ last'.raised # "") =>
          /\ ~last'.success
          /\ last'.error_message = "error_killing"
          /\ objs' = objs /\ registry' = registry
          /\ spool' = spool
          /\ "rm" \notin last'.sent]_vars

C37_Witness ==
    /\ last.op = "kill" /\ last.site = "kill" /\ last.raised = "timeout"
    /\ last.error_message = "error_killing"
    /\ last.steps = <<"term", "wait", "probe", "kill9">>
    /\ last.cleanup

\* The server started with MCP_SSH_CONNECTION_REUSE=true.
ReuseInit ==
    /\ policy = NoValidator
    /\ reuse = TRUE
    /\ registry = [i \in Ids |-> 0]
    /\ objs = <<>>
    /\ procs = <<>>
    /\ spool = <<>>
    /\ sessions = 0
    /\ calls = [s \in Slots |-> Idle]
    /\ last = NoResult
    /\ killedOk = {}
    /\ returned = {}
    /\ termExit = [i \in Ids |-> {}]
    /\ budget = MaxObjs

\* Tool calls on host h1 with connection reuse enabled, until the sessions
\* left open exceed MaxLeak.
ReuseNext ==
    \/ TakeResult
    \/ \E p \in DOMAIN procs, code \in ExitCodes : ProcExit(p, code)
    \/ \E s \in Slots, id \in Ids :
           /\ sessions <= MaxLeak
           /\ ExecBegin(s, "h1", <<"l", "s">>, TRUE, id)
    \/ \E s \in Slots, how \in {"ok", "lost"} : ExecLaunch(s, how, "other")
    \/ \E s \in Slots : ExecPoll(s, 0, "other")
    \/ \E s \in Slots, id \in Ids, ok \in BOOLEAN :
           \E f \in Faults(ok, 4) :
               /\ sessions <= MaxLeak
               /\ GetStatus(s, id, ok, f, "other")

ReuseSpec == ReuseInit /\ [][ReuseNext]_vars

\* C38: with connection reuse enabled at most one SSH session to the host is
\* open at any time.
C38_ReuseBoundsSessions == reuse => sessions <= 1

\* The configured mode is none of the three the gate knows.
UnknownMode(v) == v.security_mode \notin {"disabled", "blacklist", "whitelist"}

\* C39: under a security mode the gate does not know, validate_command
\* rejects every command and execute_command is refused by the policy: it
\* opens no session, stores no record and launches nothing.
C39_UnknownModeFailsClosed ==
    UnknownMode(policy) =>
        /\ last.op = "validate" => ~last.success
        /\ last.op = "execute" =>
               /\ ~last.success /\ last.error_message = "policy"
               /\ last.tried = 0 /\ last.sent = {}
        /\ objs = <<>> /\ procs = <<>> /\ sessions = 0
        /\ \A s \in Slots : calls[s].pc = "idle"

C39_Witness ==
    /\ UnknownMode(policy)
    /\ policy.whitelist_patterns = <<<<"l", "s">>>>
    /\ policy.blacklist_patterns = <<>>
    /\ last.op = "execute" /\ last.command = <<"l", "s">>
    /\ last.error_message = "policy"

====
